---- MODULE Spec2Model ----
(***************************************************************************)
(* A model of src/app.py, the Streamlit OCR assistant.                     *)
(*                                                                         *)
(* One script run (Streamlit re-runs main() after every widget change) is  *)
(* the sequence  main -> preprocess_image -> perform_ocr (load_reader,     *)
(* readtext, normalisation) -> result check -> text_summary -> rendering.  *)
(* The only state that survives a run is the widget state and the          *)
(* st.cache_resource cache of load_reader.                                 *)
(*                                                                         *)
(* Conventions                                                             *)
(*   - a Python str is a sequence of one-character strings;                *)
(*   - a float is an integer number of tenths (coordinates, contrast) or   *)
(*     hundredths (confidence);  Num(t) is a numeric value, NoneVal a      *)
(*     value int()/float() cannot coerce;                                  *)
(*   - an image is a record [mode, px]: mode "L" has integer pixels,       *)
(*     mode "RGB" has triples;  all channels are 8 bit.                    *)
(***************************************************************************)
EXTENDS Integers, Sequences, FiniteSets

VARIABLES
    pc,                \* position of the running script ("idle" between runs)
    sel_languages,     \* multiselect widget state, in selection order
    grayscale,         \* toggle widget state
    invert,            \* toggle widget state
    contrast,          \* slider widget state, in tenths
    uploaded_file,     \* file_uploader widget state: NoFile or an image
    languages,         \* main(): value returned by build_sidebar
    original_image,    \* main(): Image.open(uploaded_file)
    processed_image,   \* main(): preprocess_image(...)
    easyocr_installed, \* environment: whether `import easyocr` succeeds
    reader_cache,      \* st.cache_resource of load_reader: the cached keys
    constructed,       \* number of easyocr.Reader(...) calls, per argument
    raw_results,       \* perform_ocr(): reader.readtext(np_img)
    results,           \* main(): perform_ocr(...)
    text,              \* main(): text_summary(results)
    shown              \* the elements the current run has put on the page

vars == << pc, sel_languages, grayscale, invert, contrast, uploaded_file,
           languages, original_image, processed_image, easyocr_installed,
           reader_cache, constructed, raw_results, results, text, shown >>

----------------------------------------------------------------------------
(* Bounds of the model.                                                    *)

\* total size of a text_summary input: sum over the results of Len(text)+1
MaxSize == 7
\* number of raw detections the engine returns in one call
MaxRaw == 2
\* number of pixels of an image
MaxPixels == 2
\* cap of the per-key construction counter
MaxConstructions == 2

----------------------------------------------------------------------------
(* Python str                                                              *)

\* characters str.strip() removes (a sample of str.isspace)
Whitespace == {" ", "\n"}
\* characters str.splitlines() breaks at
LineBreaks == {"\n"}
Alphabet == {"a", "b", " ", "\n"}

RECURSIVE LStrip(_)
LStrip(s) ==
    IF s # << >> /\ Head(s) \in Whitespace THEN LStrip(Tail(s)) ELSE s

RECURSIVE RStrip(_)
RStrip(s) ==
    IF s # << >> /\ s[Len(s)] \in Whitespace
    THEN RStrip(SubSeq(s, 1, Len(s) - 1))
    ELSE s

\* a strip that removes at most one character from each end
StripOnce(s) ==
    LET l == IF s # << >> /\ Head(s) \in Whitespace THEN Tail(s) ELSE s
    IN  IF l # << >> /\ l[Len(l)] \in Whitespace
        THEN SubSeq(l, 1, Len(l) - 1)
        ELSE l

\* str.strip()
Strip(s) == RStrip(LStrip(s))

\* index of the first line break of s, 0 when there is none
FirstBreak(s) ==
    LET B == {i \in 1..Len(s) : s[i] \in LineBreaks}
    IN  IF B = {} THEN 0 ELSE CHOOSE i \in B : \A j \in B : i <= j

\* str.splitlines(): no trailing empty line, "" gives []
RECURSIVE SplitLines(_)
SplitLines(s) ==
    IF s = << >> THEN << >>
    ELSE LET i == FirstBreak(s)
         IN  IF i = 0 THEN << s >>
             ELSE << SubSeq(s, 1, i - 1) >> \o SplitLines(SubSeq(s, i + 1, Len(s)))

\* sep.join(parts)
RECURSIVE Join(_, _)
Join(parts, sep) ==
    IF parts = << >> THEN << >>
    ELSE IF Len(parts) = 1 THEN parts[1]
    ELSE parts[1] \o sep \o Join(Tail(parts), sep)

\* [r.text for r in results if r.text]
RECURSIVE NonEmptyTexts(_)
NonEmptyTexts(rs) ==
    IF rs = << >> THEN << >>
    ELSE (IF Head(rs).text # << >> THEN << Head(rs).text >> ELSE << >>)
         \o NonEmptyTexts(Tail(rs))

\* [line.strip() for line in lines]
RECURSIVE StripAll(_)
StripAll(lines) ==
    IF lines = << >> THEN << >>
    ELSE << Strip(Head(lines)) >> \o StripAll(Tail(lines))

\* [line.strip() for line in lines if line.strip()]
RECURSIVE StripNonBlank(_)
StripNonBlank(lines) ==
    IF lines = << >> THEN << >>
    ELSE (IF Strip(Head(lines)) # << >> THEN << Strip(Head(lines)) >> ELSE << >>)
         \o StripNonBlank(Tail(lines))

----------------------------------------------------------------------------
(* text_summary                                                            *)

\* a text_summary that keeps the lines that are blank after stripping
text_summary_keep_blank(rs) ==
    Join(StripAll(SplitLines(Join(NonEmptyTexts(rs), << "\n" >>))), << "\n" >>)

text_summary(rs) ==
    Join(StripNonBlank(SplitLines(Join(NonEmptyTexts(rs), << "\n" >>))), << "\n" >>)

----------------------------------------------------------------------------
(* perform_ocr: the normalisation of the engine's raw output                *)

\* a numeric value of the engine, in tenths (coordinate) or hundredths
\* (confidence), and a value that int() and float() raise on
Num(t) == [kind |-> "num", v |-> t]
NoneVal == [kind |-> "none", v |-> 0]
Coercible(x) == x.kind = "num"

\* an int() that rounds a number of tenths to the nearest integer
PyIntRound(x) == (x.v + 5) \div 10

\* int(x): truncation toward zero of a number of tenths
PyInt(x) ==
    IF x.v >= 0 THEN x.v \div 10 ELSE -((-x.v) \div 10)

\* float(x): the value itself, here in hundredths
PyFloat(x) == x.v

\* tuple(map(int, point))
IntPoint(point) == [k \in 1..Len(point) |-> PyInt(point[k])]

\* the dataclass constructor
OcrResult(bbox, txt, confidence) ==
    [bbox |-> bbox, text |-> txt, confidence |-> confidence]

\* whether building the OcrResult of a raw triple raises
Raises(t) ==
    \/ \E i \in 1..Len(t.bbox) : \E k \in 1..Len(t.bbox[i]) :
           ~Coercible(t.bbox[i][k])
    \/ ~Coercible(t.confidence)

OcrResultOf(t) ==
    OcrResult([i \in 1..Len(t.bbox) |-> IntPoint(t.bbox[i])],
              Strip(t.text),
              PyFloat(t.confidence))

\* a comprehension that leaves out the detections whose text is empty
RECURSIVE perform_ocr_drop_empty(_)
perform_ocr_drop_empty(raw) ==
    IF raw = << >> THEN << >>
    ELSE (IF Strip(Head(raw).text) # << >> THEN << OcrResultOf(Head(raw)) >>
          ELSE << >>)
         \o perform_ocr_drop_empty(Tail(raw))

\* the list comprehension perform_ocr returns, when no element raises
perform_ocr_results(raw) ==
    [i \in 1..Len(raw) |-> OcrResultOf(raw[i])]

\* the raw detections the model lets the engine return
RawPolygons ==
    { << << Num(37), Num(52) >>, << Num(100), Num(0) >>,
         << Num(100), Num(50) >>, << Num(0), Num(50) >> >>,
      << << Num(-37), Num(0) >>, << Num(15), Num(25) >>, << Num(0), Num(99) >> >>,
      << << Num(0), Num(0) >>, << Num(100), Num(0) >> >>,
      << << NoneVal, Num(0) >>, << Num(10), Num(0) >>, << Num(10), Num(10) >> >> }
RawTexts == { << >>, << " ", "a", " " >>, << "b" >>, << "\n" >> }
RawConfidences == { Num(91), Num(40), NoneVal }
RawTriples ==
    [bbox : RawPolygons, text : RawTexts, confidence : RawConfidences]
RawSeqs(n) == UNION { [1..k -> RawTriples] : k \in 0..n }

----------------------------------------------------------------------------
(* preprocess_image and the Pillow operations it calls                      *)

RECURSIVE SumSeq(_)
SumSeq(s) == IF s = << >> THEN 0 ELSE Head(s) + SumSeq(Tail(s))

Clip8(x) == IF x <= 0 THEN 0 ELSE IF x >= 255 THEN 255 ELSE x

\* Image.convert("L") of one RGB pixel (ITU-R 601-2 luma, 16 bit fixed point)
Luma(p) == (p[1] * 19595 + p[2] * 38470 + p[3] * 7471 + 32768) \div 65536

\* ImageOps.grayscale(image) = image.convert("L")
ImageOps_grayscale(im) ==
    IF im.mode = "L" THEN im
    ELSE [mode |-> "L", px |-> [i \in 1..Len(im.px) |-> Luma(im.px[i])]]

\* ImageOps.invert(image): the table 255 - v on every channel
ImageOps_invert(im) ==
    IF im.mode = "L"
    THEN [im EXCEPT !.px = [i \in 1..Len(im.px) |-> 255 - im.px[i]]]
    ELSE [im EXCEPT !.px = [i \in 1..Len(im.px) |->
                               [k \in 1..3 |-> 255 - im.px[i][k]]]]

\* Image.blend of one channel: in1 + alpha * (in2 - in1), alpha in tenths,
\* cut to 0..255 and converted to an 8 bit integer
BlendChannel(in1, in2, alpha) ==
    Clip8((10 * in1 + alpha * (in2 - in1)) \div 10)

\* ImageEnhance.Contrast(image).enhance(factor): the blend of the image with
\* the uniform image of its mean luminance, int(mean + 0.5)
ImageEnhance_Contrast(im, factor) ==
    LET n == Len(im.px)
        mean == (2 * SumSeq(ImageOps_grayscale(im).px) + n) \div (2 * n)
    IN  IF im.mode = "L"
        THEN [im EXCEPT !.px = [i \in 1..n |->
                                   BlendChannel(mean, im.px[i], factor)]]
        ELSE [im EXCEPT !.px = [i \in 1..n |-> [k \in 1..3 |->
                                   BlendChannel(mean, im.px[i][k], factor)]]]

\* a preprocess_image that enhances the contrast before it inverts
preprocess_image_contrast_first(image, gray, inv, factor) ==
    LET p1 == IF gray THEN ImageOps_grayscale(image) ELSE image
        p2 == IF factor # 10 THEN ImageEnhance_Contrast(p1, factor) ELSE p1
    IN  IF inv THEN ImageOps_invert(p2) ELSE p2

preprocess_image(image, gray, inv, factor) ==
    LET p1 == IF gray THEN ImageOps_grayscale(image) ELSE image
        p2 == IF inv THEN ImageOps_invert(p1) ELSE p1
    IN  IF factor # 10 THEN ImageEnhance_Contrast(p2, factor) ELSE p2

\* the images the model lets the user upload
GreyLevels == {0, 90, 255}
Colours == { << 0, 0, 0 >>, << 255, 0, 0 >>, << 10, 200, 90 >>,
             << 255, 255, 255 >> }
Images(n) ==
    UNION { [mode : {"L"}, px : [1..k -> GreyLevels]] \cup
            [mode : {"RGB"}, px : [1..k -> Colours]] : k \in 1..n }
\* the slider: 0.5 to 3.0 in steps of 0.1, a sample of its positions
Contrasts == {5, 10, 14, 30}

----------------------------------------------------------------------------
(* The widgets and the page                                                 *)

NoFile == [mode |-> "none", px |-> << >>]
NoImage == NoFile

\* st.sidebar.multiselect(options=["vi", "en"]): the chosen options, each
\* once, in the order the user chose them
LanguageSelections ==
    { << >>, << "vi" >>, << "en" >>, << "vi", "en" >>, << "en", "vi" >> }

\* a build_sidebar without the fallback for an empty selection
build_sidebar_no_fallback(selection) == selection

\* the languages build_sidebar returns: tuple(languages) or ("vi",)
build_sidebar(selection) ==
    IF selection # << >> THEN selection ELSE << "vi" >>

\* what main() renders once it has text
ResultElements ==
    {"original", "processed", "overlay", "text_area", "download",
     "dataframe", "caption"}

\* a run has ended: the script returned, st.stop() ended it, or it raised
Ended == {"done", "stopped", "exception"}

\* the images and the engine outputs of the application runs
UploadSample ==
    { [mode |-> "L", px |-> << 0, 90 >>],
      [mode |-> "RGB", px |-> << << 10, 200, 90 >>, << 255, 0, 0 >> >>] }
BoxA == CHOOSE b \in RawPolygons : Len(b) = 4
BoxShort == CHOOSE b \in RawPolygons : Len(b) = 2
BoxBad == CHOOSE b \in RawPolygons : ~Coercible(b[1][1])
EngineSample ==
    { << >>,
      << [bbox |-> BoxA, text |-> << " ", "a", " " >>, confidence |-> Num(91)] >>,
      << [bbox |-> BoxA, text |-> << "\n" >>, confidence |-> Num(40)] >>,
      << [bbox |-> BoxA, text |-> << "b" >>, confidence |-> Num(91)],
         [bbox |-> BoxA, text |-> << >>, confidence |-> Num(40)] >>,
      << [bbox |-> BoxShort, text |-> << "b" >>, confidence |-> Num(91)] >>,
      << [bbox |-> BoxBad, text |-> << "b" >>, confidence |-> Num(91)] >> }

NoCount == [t \in LanguageSelections |-> 0]

----------------------------------------------------------------------------
(* The application                                                          *)

\* the first run of the script, with every widget at its default
Init ==
    /\ pc = "main"
    /\ sel_languages = << "vi", "en" >>
    /\ grayscale = TRUE
    /\ invert = FALSE
    /\ contrast = 14
    /\ uploaded_file = NoFile
    /\ languages = << >>
    /\ original_image = NoImage
    /\ processed_image = NoImage
    /\ easyocr_installed \in BOOLEAN
    /\ reader_cache = {}
    /\ constructed = NoCount
    /\ raw_results = << >>
    /\ results = << >>
    /\ text = << >>
    /\ shown = {}

\* a widget change re-runs the script from the top on an empty page
Rerun ==
    /\ pc \in Ended
    /\ pc' = "main"
    /\ languages' = << >>
    /\ original_image' = NoImage
    /\ processed_image' = NoImage
    /\ raw_results' = << >>
    /\ results' = << >>
    /\ text' = << >>
    /\ shown' = {}
    /\ UNCHANGED << easyocr_installed, reader_cache, constructed >>

SelectLanguages ==
    /\ Rerun
    /\ \E s \in LanguageSelections \ {sel_languages} : sel_languages' = s
    /\ UNCHANGED << grayscale, invert, contrast, uploaded_file >>

ToggleGrayscale ==
    /\ Rerun
    /\ grayscale' = ~grayscale
    /\ UNCHANGED << sel_languages, invert, contrast, uploaded_file >>

ToggleInvert ==
    /\ Rerun
    /\ invert' = ~invert
    /\ UNCHANGED << sel_languages, grayscale, contrast, uploaded_file >>

MoveSlider ==
    /\ Rerun
    /\ \E c \in Contrasts \ {contrast} : contrast' = c
    /\ UNCHANGED << sel_languages, grayscale, invert, uploaded_file >>

UploadFile ==
    /\ Rerun
    /\ \E f \in (UploadSample \cup {NoFile}) \ {uploaded_file} :
           uploaded_file' = f
    /\ UNCHANGED << sel_languages, grayscale, invert, contrast >>

\* the user follows the error message: pip install easyocr
InstallEasyocr ==
    /\ pc \in Ended
    /\ ~easyocr_installed
    /\ easyocr_installed' = TRUE
    /\ UNCHANGED << pc, sel_languages, grayscale, invert, contrast,
                    uploaded_file, languages, original_image,
                    processed_image, reader_cache, constructed, raw_results,
                    results, text, shown >>

\* main() up to Image.open: the sidebar and the upload check
Main ==
    /\ pc = "main"
    /\ languages' = build_sidebar(sel_languages)
    /\ IF uploaded_file = NoFile
       THEN /\ shown' = shown \cup {"info"}
            /\ pc' = "done"
            /\ UNCHANGED original_image
       ELSE /\ original_image' = uploaded_file
            /\ pc' = "preprocess"
            /\ UNCHANGED shown
    /\ UNCHANGED << sel_languages, grayscale, invert, contrast, uploaded_file,
                    processed_image, easyocr_installed, reader_cache,
                    constructed, raw_results, results, text >>

Preprocess ==
    /\ pc = "preprocess"
    /\ processed_image' =
           preprocess_image(original_image, grayscale, invert, contrast)
    /\ pc' = "load_reader"
    /\ UNCHANGED << sel_languages, grayscale, invert, contrast, uploaded_file,
                    languages, original_image, easyocr_installed,
                    reader_cache, constructed, raw_results, results, text,
                    shown >>

\* a load_reader that goes on after the error message instead of stopping
LoadReaderNoStop ==
    /\ pc = "load_reader"
    /\ languages \notin reader_cache
    /\ ~easyocr_installed
    /\ shown' = shown \cup {"error"}
    /\ pc' = "readtext"
    /\ UNCHANGED << sel_languages, grayscale, invert, contrast, uploaded_file,
                    languages, original_image, processed_image,
                    easyocr_installed, reader_cache, constructed,
                    raw_results, results, text >>

\* load_reader, the import fails: st.error, then st.stop() ends the run and
\* st.cache_resource stores nothing
LoadReaderMissing ==
    /\ pc = "load_reader"
    /\ languages \notin reader_cache
    /\ ~easyocr_installed
    /\ shown' = shown \cup {"error"}
    /\ pc' = "stopped"
    /\ UNCHANGED << sel_languages, grayscale, invert, contrast, uploaded_file,
                    languages, original_image, processed_image,
                    easyocr_installed, reader_cache, constructed,
                    raw_results, results, text >>

\* a load_reader whose result is not kept by the cache
LoadReaderUncached ==
    /\ pc = "load_reader"
    /\ languages \notin reader_cache
    /\ easyocr_installed
    /\ constructed[languages] < MaxConstructions
    /\ constructed' = [constructed EXCEPT ![languages] = @ + 1]
    /\ pc' = "readtext"
    /\ UNCHANGED << sel_languages, grayscale, invert, contrast, uploaded_file,
                    languages, original_image, processed_image,
                    easyocr_installed, reader_cache, raw_results, results,
                    text, shown >>

\* load_reader, a cache miss: easyocr.Reader(list(languages)) is built and
\* st.cache_resource keeps it under the key `languages`
LoadReaderMiss ==
    /\ pc = "load_reader"
    /\ languages \notin reader_cache
    /\ easyocr_installed
    /\ constructed[languages] < MaxConstructions
    /\ constructed' = [constructed EXCEPT ![languages] = @ + 1]
    /\ reader_cache' = reader_cache \cup {languages}
    /\ pc' = "readtext"
    /\ UNCHANGED << sel_languages, grayscale, invert, contrast, uploaded_file,
                    languages, original_image, processed_image,
                    easyocr_installed, raw_results, results, text, shown >>

\* load_reader, a cache hit: the body of the function does not run
LoadReaderHit ==
    /\ pc = "load_reader"
    /\ languages \in reader_cache
    /\ pc' = "readtext"
    /\ UNCHANGED << sel_languages, grayscale, invert, contrast, uploaded_file,
                    languages, original_image, processed_image,
                    easyocr_installed, reader_cache, constructed,
                    raw_results, results, text, shown >>

\* reader.readtext(np.array(image)): whatever the engine finds
ReadText ==
    /\ pc = "readtext"
    /\ \E raw \in EngineSample : raw_results' = raw
    /\ pc' = "normalise"
    /\ UNCHANGED << sel_languages, grayscale, invert, contrast, uploaded_file,
                    languages, original_image, processed_image,
                    easyocr_installed, reader_cache, constructed, results,
                    text, shown >>

\* the list comprehension of perform_ocr: a value int() or float() cannot
\* coerce raises out of main(), otherwise every triple becomes an OcrResult
PerformOcrReturn ==
    /\ pc = "normalise"
    /\ IF \E i \in 1..Len(raw_results) : Raises(raw_results[i])
       THEN /\ pc' = "exception"
            /\ shown' = shown \cup {"exception"}
            /\ UNCHANGED results
       ELSE /\ results' = perform_ocr_results(raw_results)
            /\ pc' = "check"
            /\ UNCHANGED shown
    /\ UNCHANGED << sel_languages, grayscale, invert, contrast, uploaded_file,
                    languages, original_image, processed_image,
                    easyocr_installed, reader_cache, constructed,
                    raw_results, text >>

\* if not results: st.warning(...); return
CheckResults ==
    /\ pc = "check"
    /\ IF results = << >>
       THEN /\ shown' = shown \cup {"warning"}
            /\ pc' = "done"
       ELSE /\ pc' = "text_summary"
            /\ UNCHANGED shown
    /\ UNCHANGED << sel_languages, grayscale, invert, contrast, uploaded_file,
                    languages, original_image, processed_image,
                    easyocr_installed, reader_cache, constructed,
                    raw_results, results, text >>

TextSummary ==
    /\ pc = "text_summary"
    /\ text' = text_summary(results)
    /\ pc' = "render"
    /\ UNCHANGED << sel_languages, grayscale, invert, contrast, uploaded_file,
                    languages, original_image, processed_image,
                    easyocr_installed, reader_cache, constructed,
                    raw_results, results, shown >>

\* the two columns, the download button, the table and the caption
Render ==
    /\ pc = "render"
    /\ shown' = shown \cup ResultElements
    /\ pc' = "done"
    /\ UNCHANGED << sel_languages, grayscale, invert, contrast, uploaded_file,
                    languages, original_image, processed_image,
                    easyocr_installed, reader_cache, constructed,
                    raw_results, results, text >>

Next ==
    \/ SelectLanguages
    \/ ToggleGrayscale
    \/ ToggleInvert
    \/ MoveSlider
    \/ UploadFile
    \/ InstallEasyocr
    \/ Main
    \/ Preprocess
    \/ LoadReaderMissing
    \/ LoadReaderMiss
    \/ LoadReaderHit
    \/ ReadText
    \/ PerformOcrReturn
    \/ CheckResults
    \/ TextSummary
    \/ Render

Spec == Init /\ [][Next]_vars

----------------------------------------------------------------------------
(* The functions on their own: every input within the bounds                *)

\* a run that is about to preprocess the upload, the widgets set anyhow
InitPre ==
    /\ pc = "preprocess"
    /\ sel_languages = << "vi", "en" >>
    /\ grayscale \in BOOLEAN
    /\ invert \in BOOLEAN
    /\ contrast \in Contrasts
    /\ uploaded_file \in Images(MaxPixels)
    /\ languages = build_sidebar(sel_languages)
    /\ original_image = uploaded_file
    /\ processed_image = NoImage
    /\ easyocr_installed = TRUE
    /\ reader_cache = {}
    /\ constructed = NoCount
    /\ raw_results = << >>
    /\ results = << >>
    /\ text = << >>
    /\ shown = {}

SpecPre == InitPre /\ [][Preprocess]_vars

\* a run whose engine call has just returned
InitNorm ==
    /\ pc = "normalise"
    /\ sel_languages = << "vi", "en" >>
    /\ grayscale = TRUE
    /\ invert = FALSE
    /\ contrast = 14
    /\ uploaded_file = [mode |-> "L", px |-> << 0, 90 >>]
    /\ languages = build_sidebar(sel_languages)
    /\ original_image = uploaded_file
    /\ processed_image =
           preprocess_image(original_image, grayscale, invert, contrast)
    /\ easyocr_installed = TRUE
    /\ reader_cache = {languages}
    /\ constructed = [NoCount EXCEPT ![languages] = 1]
    /\ raw_results \in RawSeqs(MaxRaw)
    /\ results = << >>
    /\ text = << >>
    /\ shown = {}

SpecNorm == InitNorm /\ [][PerformOcrReturn]_vars

\* the strings of at most n characters
TextsUpTo(n) == UNION { [1..k -> Alphabet] : k \in 0..n }

\* the lists of strings of total size at most n, a string of k characters
\* counting k + 1
RECURSIVE TextLists(_)
TextLists(n) ==
    IF n <= 0 THEN { << >> }
    ELSE { << >> } \cup
         UNION { { << t >> \o rest : rest \in TextLists(n - 1 - Len(t)) } :
                 t \in TextsUpTo(n - 1) }

BoxInt == << << 0, 0 >>, << 10, 0 >>, << 10, 5 >>, << 0, 5 >> >>

\* results with the given texts
ResultsWithTexts(ts) == [i \in 1..Len(ts) |-> OcrResult(BoxInt, ts[i], 91)]

\* a run that is about to summarise a result list, its texts set anyhow
InitSummary ==
    /\ pc = "text_summary"
    /\ sel_languages = << "vi", "en" >>
    /\ grayscale = TRUE
    /\ invert = FALSE
    /\ contrast = 14
    /\ uploaded_file = [mode |-> "L", px |-> << 0, 90 >>]
    /\ languages = build_sidebar(sel_languages)
    /\ original_image = uploaded_file
    /\ processed_image =
           preprocess_image(original_image, grayscale, invert, contrast)
    /\ easyocr_installed = TRUE
    /\ reader_cache = {languages}
    /\ constructed = [NoCount EXCEPT ![languages] = 1]
    /\ raw_results = << >>
    /\ results \in { ResultsWithTexts(ts) : ts \in TextLists(MaxSize) }
    /\ text = << >>
    /\ shown = {}

SpecSummary == InitSummary /\ [][TextSummary]_vars

----------------------------------------------------------------------------
(* The claims                                                               *)

Range(f) == { f[i] : i \in DOMAIN f }

\* C1: normalisation returns one entry per raw triple, in the engine's
\* order: the i-th entry has the stripped text, the confidence and as many
\* points as the i-th triple; nothing is sorted, merged or left out.
C1_OrderPreserved ==
    pc = "check" =>
        /\ Len(results) = Len(raw_results)
        /\ \A i \in 1..Len(raw_results) :
               /\ results[i].text = Strip(raw_results[i].text)
               /\ results[i].confidence = raw_results[i].confidence.v
               /\ Len(results[i].bbox) = Len(raw_results[i].bbox)

\* two detections, the first with an empty text and the lower confidence,
\* both kept and in the engine's order
C1_Witness ==
    /\ pc = "check"
    /\ Len(raw_results) = 2
    /\ Len(results) = 2
    /\ results[1].text = << >>
    /\ results[2].text = << "a" >>
    /\ results[1].confidence < results[2].confidence

\* C2, as the spec states it: every stored coordinate is the integer nearest
\* to the raw value (in tenths: at most 5 tenths away).
C2_RoundsToNearest ==
    pc = "check" =>
        \A i \in 1..Len(results) : \A j \in 1..Len(results[i].bbox) :
            \A k \in 1..2 :
                LET t == raw_results[i].bbox[j][k].v
                    r == results[i].bbox[j][k]
                IN  10 * r - 5 <= t /\ t <= 10 * r + 5

\* C2, amended: every stored coordinate is the raw value cut toward zero:
\* it has the sign of the raw value and is less than one below it in size.
C2_TruncatesTowardZero ==
    pc = "check" =>
        \A i \in 1..Len(results) : \A j \in 1..Len(results[i].bbox) :
            \A k \in 1..2 :
                LET t == raw_results[i].bbox[j][k].v
                    r == results[i].bbox[j][k]
                IN  IF t >= 0
                    THEN 10 * r <= t /\ t < 10 * r + 10
                    ELSE 10 * r - 10 < t /\ t <= 10 * r

\* the point (3.7, 5.2) stored as (3, 5), and -3.7 stored as -3
C2_Witness ==
    /\ pc = "check"
    /\ \E i \in 1..Len(results) :
           /\ raw_results[i].bbox[1] = << Num(37), Num(52) >>
           /\ results[i].bbox[1] = << 3, 5 >>
    /\ \E i \in 1..Len(results) :
           /\ raw_results[i].bbox[1][1] = Num(-37)
           /\ results[i].bbox[1][1] = -3

\* a transcript without blank lines and without padded lines: it neither
\* starts nor ends with whitespace, and no line break touches whitespace
Clean(out) ==
    \/ out = << >>
    \/ /\ out[1] \notin Whitespace
       /\ out[Len(out)] \notin Whitespace
       /\ \A i \in 2..(Len(out) - 1) :
              out[i] \in LineBreaks =>
                  out[i - 1] \notin Whitespace /\ out[i + 1] \notin Whitespace

\* the non-blank stripped lines of every text, text after text
RECURSIVE LinesOfTexts(_)
LinesOfTexts(rs) ==
    IF rs = << >> THEN << >>
    ELSE StripNonBlank(SplitLines(Head(rs).text)) \o LinesOfTexts(Tail(rs))

Chars_Hello == << " ", " ", "H", "e", "l", "l", "o", " ", " " >>
Chars_World == << "W", "o", "r", "l", "d" >>

\* C3: the transcript is the results' texts in result order, one line per
\* line of text, joined by single line breaks, without blank or padded
\* lines; an empty text contributes nothing, and "  Hello  ", "", "World"
\* give "Hello\nWorld".
C3_CleanTranscript ==
    /\ pc = "render" =>
           /\ Clean(text)
           /\ text = Join(LinesOfTexts(results), << "\n" >>)
           /\ (\A i \in 1..Len(results) : Strip(results[i].text) = << >>)
                  => text = << >>
    /\ text_summary(ResultsWithTexts(<< Chars_Hello, << >>, Chars_World >>))
           = << "H", "e", "l", "l", "o", "\n", "W", "o", "r", "l", "d" >>

\* a padded text, an empty text and a plain text summarised to two lines
C3_Witness ==
    /\ pc = "render"
    /\ Len(results) = 3
    /\ results[1].text = << " ", "a", " " >>
    /\ results[2].text = << >>
    /\ results[3].text = << "b" >>
    /\ text = << "a", "\n", "b" >>

\* C4: summarising the lines of a transcript, each taken as the text of a
\* result of its own, gives the transcript again.
C4_Idempotent ==
    pc = "render" =>
        text_summary(ResultsWithTexts(SplitLines(text))) = text

\* a text with a line break and padding inside it, summarised to two lines
C4_Witness ==
    /\ pc = "render"
    /\ Len(results) = 1
    /\ results[1].text = << " ", "a", " ", "\n", " ", "b" >>
    /\ text = << "a", "\n", "b" >>

\* the three steps of the preprocessing, each one switched by its flag
GrayscaleStep(im, on) == IF on THEN ImageOps_grayscale(im) ELSE im
InvertStep(im, on) == IF on THEN ImageOps_invert(im) ELSE im
ContrastStep(im, factor) ==
    IF factor = 10 THEN im ELSE ImageEnhance_Contrast(im, factor)

\* C5: preprocess_image returns grayscale, then inversion, then contrast,
\* each applied only when enabled; with everything disabled it returns the
\* image itself; and the caller's image stays as it was.
C5_FixedOrder ==
    [][pc = "preprocess" =>
          /\ original_image' = original_image
          /\ processed_image' =
                 ContrastStep(InvertStep(GrayscaleStep(original_image,
                                                       grayscale),
                                         invert),
                              contrast)
          /\ (~grayscale /\ ~invert /\ contrast = 10)
                 => processed_image' = original_image]_vars

\* a colour image that went through all three steps
C5_Witness ==
    /\ pc = "load_reader"
    /\ grayscale /\ invert /\ contrast = 14
    /\ original_image.mode = "RGB"
    /\ processed_image.mode = "L"
    /\ processed_image.px # ImageOps_grayscale(original_image).px

\* C6: a run whose detection succeeded with no usable text ends with the
\* "no text found" warning and without any of the result elements.
C6_NoTextFound ==
    (pc = "done" /\ "info" \notin shown /\ text_summary(results) = << >>) =>
        /\ "warning" \in shown
        /\ shown \cap ResultElements = {}

\* the number of readers built for the language set S, over every order
RECURSIVE SumOver(_, _)
SumOver(f, D) ==
    IF D = {} THEN 0
    ELSE LET x == CHOOSE y \in D : TRUE IN f[x] + SumOver(f, D \ {x})

BuiltForSet(S) ==
    SumOver(constructed, { t \in LanguageSelections : Range(t) = S })

\* C7, as the spec states it: at most one reader is ever built for a set of
\* languages, whatever the order of selection.
C7_OncePerSet ==
    \A S \in SUBSET {"vi", "en"} : BuiltForSet(S) <= 1

\* C7, amended: at most one reader is ever built for a language tuple, it
\* is built exactly when the tuple enters the cache, and nothing leaves
\* the cache.
C7_OncePerTuple ==
    [][/\ reader_cache \subseteq reader_cache'
       /\ \A t \in LanguageSelections :
              /\ constructed'[t] >= constructed[t]
              /\ constructed'[t] <= 1
              /\ constructed'[t] = 1 <=> t \in reader_cache']_vars

\* a run asks for a reader that an earlier run built, after readers for
\* both orders of the two languages were built
C7_Witness ==
    /\ pc = "load_reader"
    /\ languages = << "vi", "en" >>
    /\ languages \in reader_cache
    /\ constructed[<< "vi", "en" >>] = 1
    /\ constructed[<< "en", "vi" >>] = 1

\* C8: no normalised result has a polygon of fewer than 3 points.
C8_NoShortPolygon ==
    pc = "check" => \A i \in 1..Len(results) : Len(results[i].bbox) >= 3

\* the steps of a run that hold the languages handed to the engine
EngineStages == {"load_reader", "readtext", "normalise"}

\* C9, as the spec states it: the languages handed to the engine are a
\* non-empty subset of {vi, en}, and both when nothing is selected.
C9_DefaultsToBoth ==
    pc \in EngineStages =>
        /\ Range(languages) # {}
        /\ Range(languages) \subseteq {"vi", "en"}
        /\ sel_languages = << >> => Range(languages) = {"vi", "en"}

\* C9, amended: the languages handed to the engine are a non-empty subset
\* of {vi, en}: the selection itself, and ("vi",) when nothing is selected.
C9_DefaultsToVi ==
    /\ pc \in EngineStages =>
           /\ Range(languages) # {}
           /\ Range(languages) \subseteq {"vi", "en"}
           /\ sel_languages = << >> => languages = << "vi" >>
           /\ sel_languages # << >> => languages = sel_languages
    /\ \A t \in reader_cache : Range(t) # {}

\* the engine was called for an empty selection
C9_Witness ==
    /\ pc = "readtext"
    /\ sel_languages = << >>
    /\ languages = << "vi" >>
    /\ languages \in reader_cache

\* C10: without easyocr a run that reaches load_reader ends stopped, with
\* the error message and none of the result elements, and nothing enters
\* the cache.
C10_EngineUnavailable ==
    /\ pc = "stopped" =>
           /\ "error" \in shown
           /\ shown \cap ResultElements = {}
           /\ languages \notin reader_cache
           /\ results = << >> /\ text = << >>
    /\ ~easyocr_installed =>
           /\ reader_cache = {}
           /\ pc \notin {"readtext", "normalise", "check", "text_summary",
                         "render"}
           /\ shown \cap ResultElements = {}

\* a run stopped by the missing dependency
C10_Witness ==
    /\ pc = "stopped"
    /\ ~easyocr_installed
    /\ "error" \in shown
    /\ uploaded_file # NoFile

====
